---------------------------- MODULE Spec2Model ----------------------------
(***************************************************************************)
(* A model of the plugins of some_bevy_tools.                              *)
(*                                                                         *)
(* range.rs      Range<T>: the bounded value component, its builders, set,  *)
(*               modify, get / quantize, and the update_range system.       *)
(* audio_loop.rs LoopableAudioSource: active and pending loop points, the   *)
(*               playback cursor, Iterator::next, and the event handler.    *)
(* input.rs      InputMapping and its add / remove methods, and             *)
(*               input_mapping_system.                                      *)
(* collision_detection.rs  collision_detection_system.                      *)
(* despawn.rs    AutoDespawn and auto_despawn_system, Cleanup and           *)
(*               cleanup_system.                                            *)
(* camera_2d.rs  Camera2DController and camera_2d_controller_system.        *)
(*                                                                         *)
(* Commands.  A despawn command is applied when the schedule of the system  *)
(* that issued it ends, before the system runs again: the run of a system   *)
(* and the removal of the entities it despawns are one step here.           *)
(*                                                                         *)
(* Numbers.  The f32 fields of Range are modelled as exact fixed-point      *)
(* numbers: the integer n stands for n / Unit, so with Unit = 10 the value  *)
(* 14 is 1.4 and 5 is 0.5.  Only finite values are modelled (no NaN, no     *)
(* infinity), and the quantize step is never 0.  The loop points of the     *)
(* audio source are seconds in the same representation.                      *)
(*                                                                         *)
(* Threads.  Iterator::next runs on the audio thread and the event handler  *)
(* on the main thread; every field of the source is behind its own lock.    *)
(* One call of next and one run of the handler are each one step here.      *)
(***************************************************************************)
EXTENDS Integers, Sequences, FiniteSets, TLC

VARIABLES
    \* ---- range.rs: one Range component under construction and use ----
    range,      \* the Range value (start, end, current, quantize, change_per_second)
    rphase,     \* "build": the builder expression is being evaluated; "live": in use
    prev,       \* the Range value before the last operation
    lastOp,     \* the last operation and its argument
    result,     \* what the last set / modify returned (NoResult otherwise)
    touched,    \* TRUE once set or modify has been called
    \* ---- range.rs: the ECS world that update_range runs on ----
    world,      \* Entity -> Range
    worldPrev,  \* world before the last system run
    frame,      \* whether the last step was an update_range run, and its delta_seconds
    startEvents,\* StartRangeLimitReachedEvent sent by the last update_range run
    endEvents,  \* EndRangeLimitReachedEvent sent by the last update_range run
    \* ---- audio_loop.rs: one LoopableAudioSource asset and its decoder ----
    audio,      \* the state the asset shares with its decoder (the Arc<RwLock<_>> fields)
    loaded,     \* TRUE once the asset is in Assets<LoopableAudioSource>
    buffered,   \* buffered_events: Local<Vec<AudioLoopEvent>> of the event handler
    panicked,   \* TRUE once next() has panicked (index out of bounds): playback is dead
    played,     \* the index of the sample the last next() returned, as an Option
    audioPrev,  \* audio before the last step
    audioOp,    \* the last step: the events it applied to the asset, and for a run of
                \* the handler the events it read (sent) and the buffer it started with (held)
    \* ---- input.rs: the InputMapping resource and input_mapping_system ----
    mapping,      \* InputMapping: button_mapping and slider_mapping
    mappingPrev,  \* mapping before the last step
    actions,      \* Local<HashSet<Action>> of input_mapping_system
    actionEvents, \* ActionEvent sent by the last run of the system, in sending order
    sliderEvents, \* DirectionSliderEvent sent by the last run of the system
    inputOp,      \* the last step: the frame's input, or the method called and its item
    \* ---- collision_detection.rs: collision_detection_system<C1, C2> ----
    components,          \* entity -> which of C1, C2 it carries ({} also for a despawned one)
    collisionEvents,     \* the CollisionEvents the last run of the system read
    collisionEventStart, \* CollisionEventStart sent by the last run, as <<first, second>>
    collisionEventStop,  \* CollisionEventStop sent by the last run
    collisionOp,         \* the last step
    \* ---- despawn.rs: auto_despawn_system ----
    despawning,      \* entity -> its AutoDespawn component, or NoEntity
    lifetime,        \* entity -> what it was spawned with, the runs of the system and
                     \* the summed frame times it has seen since
    despawnCommands, \* the entities the last run of the system despawned
    despawnOp,       \* the last step, and the frame time of a run of the system
    \* ---- despawn.rs: cleanup_system and CleanupPlugin ----
    pluginState,     \* the state s of CleanupPlugin(s)
    gameState,       \* the current value of State<S>
    cleanups,        \* entity -> alive, and its Cleanup component as an Option
    cleanupsPrev,    \* cleanups before the last step
    cleanupOp,       \* the last step, and the states a transition exited and entered
    \* ---- camera_2d.rs: one camera with a Camera2DController ----
    camera,          \* the camera entity: its Transform translation and its controller
    cameraPrev,      \* camera before the last step
    targets,         \* entity -> the translation of its Transform, as an Option
    cameraOp         \* the last step, and the frame time of a run of the system

rangeVars == <<range, rphase, prev, lastOp, result, touched>>
worldVars == <<world, worldPrev, frame, startEvents, endEvents>>
audioVars == <<audio, loaded, buffered, panicked, played, audioPrev, audioOp>>
inputVars == <<mapping, mappingPrev, actions, actionEvents, sliderEvents, inputOp>>
collisionVars ==
    <<components, collisionEvents, collisionEventStart, collisionEventStop, collisionOp>>
despawnVars == <<despawning, lifetime, despawnCommands, despawnOp>>
cleanupVars == <<pluginState, gameState, cleanups, cleanupsPrev, cleanupOp>>
cameraVars == <<camera, cameraPrev, targets, cameraOp>>
vars ==
    <<rangeVars, worldVars, audioVars, inputVars, collisionVars, despawnVars,
      cleanupVars, cameraVars>>

\* What the steps of one plugin leave alone: the state of the others.
notRangeVars ==
    <<worldVars, audioVars, inputVars, collisionVars, despawnVars, cleanupVars,
      cameraVars>>
notWorldVars ==
    <<rangeVars, audioVars, inputVars, collisionVars, despawnVars, cleanupVars,
      cameraVars>>
notAudioVars ==
    <<rangeVars, worldVars, inputVars, collisionVars, despawnVars, cleanupVars,
      cameraVars>>
notInputVars ==
    <<rangeVars, worldVars, audioVars, collisionVars, despawnVars, cleanupVars,
      cameraVars>>
notCollisionVars ==
    <<rangeVars, worldVars, audioVars, inputVars, despawnVars, cleanupVars,
      cameraVars>>
notDespawnVars ==
    <<rangeVars, worldVars, audioVars, inputVars, collisionVars, cleanupVars,
      cameraVars>>
notCleanupVars ==
    <<rangeVars, worldVars, audioVars, inputVars, collisionVars, despawnVars,
      cameraVars>>
notCameraVars ==
    <<rangeVars, worldVars, audioVars, inputVars, collisionVars, despawnVars,
      cleanupVars>>

(***************************************************************************)
(* range.rs                                                               *)
(***************************************************************************)

\* 1.0 as a fixed-point number: n stands for n / Unit.
Unit == 10

\* Largest magnitude of an argument of set and with_current.
MaxValue == 17

Abs(n) == IF n < 0 THEN -n ELSE n

\* Variant: halves toward zero (as a truncating round would give).
RoundHalfTowardZero(n, d) ==
    IF n >= 0 THEN (2 * n + d - 1) \div (2 * d)
    ELSE -((2 * (-n) + d - 1) \div (2 * d))

\* f32::round of the quotient n / d (d > 0): nearest integer, halves away from zero.
Round(n, d) ==
    IF n >= 0 THEN (2 * n + d) \div (2 * d)
    ELSE -((2 * (-n) + d) \div (2 * d))

\* pub fn quantize(value, step) = (value / step).round() * step
quantize(value, step) == Round(value, step) * step

ResOk == [kind |-> "Ok"]
StartLimitReached(low, v) == [kind |-> "StartLimitReached", low_limit |-> low, value |-> v]
EndLimitReached(high, v) == [kind |-> "EndLimitReached", high_limit |-> high, value |-> v]

\* Range::new
RangeNew(start, end) ==
    [start |-> start, end |-> end, current |-> end,
     quantize |-> Unit, change_per_second |-> 0]

\* impl Default for Range
RangeDefault == RangeNew(0, Unit)

\* Variant: with_end that also moves the current value to the new end.
WithEndAlsoCurrent(r, end) == [r EXCEPT !.end = end, !.current = end]

\* The builders: Range { field, ..self }
with_start(r, start) == [r EXCEPT !.start = start]
with_end(r, end) == [r EXCEPT !.end = end]
with_current(r, current) == [r EXCEPT !.current = current]
with_quantize(r, q) == [r EXCEPT !.quantize = q]
with_change_per_second(r, c) == [r EXCEPT !.change_per_second = c]

\* Range::set_quantize, Range::set_change_per_second
set_quantize(r, q) == [r EXCEPT !.quantize = q]
set_change_per_second(r, c) == [r EXCEPT !.change_per_second = c]

\* Variant: a value equal to a limit does not count as reaching it.
SetStrictLimits(r, value) ==
    IF value < r.start
    THEN [range |-> [r EXCEPT !.current = r.start],
          result |-> StartLimitReached(r.start, value)]
    ELSE IF value > r.end
    THEN [range |-> [r EXCEPT !.current = r.end],
          result |-> EndLimitReached(r.end, value)]
    ELSE [range |-> [r EXCEPT !.current = value], result |-> ResOk]

\* Variant: the end limit is reported but the value is not clamped to it.
SetNoEndClamp(r, value) ==
    IF value <= r.start
    THEN [range |-> [r EXCEPT !.current = r.start],
          result |-> StartLimitReached(r.start, value)]
    ELSE IF value >= r.end
    THEN [range |-> [r EXCEPT !.current = value],
          result |-> EndLimitReached(r.end, value)]
    ELSE [range |-> [r EXCEPT !.current = value], result |-> ResOk]

\* Range::set: the new Range and the returned ModifyRangeResult.
set(r, value) ==
    IF value <= r.start
    THEN [range |-> [r EXCEPT !.current = r.start],
          result |-> StartLimitReached(r.start, value)]
    ELSE IF value >= r.end
    THEN [range |-> [r EXCEPT !.current = r.end],
          result |-> EndLimitReached(r.end, value)]
    ELSE [range |-> [r EXCEPT !.current = value], result |-> ResOk]

\* Range::get
get(r) == quantize(r.current, r.quantize)

\* Variant: modify that starts from the quantized value get() returns.
ModifyFromGet(r, delta) == set(r, get(r) + delta)

\* Range::modify
modify(r, delta) == set(r, r.current + delta)

\* ---- inputs ----
NewStarts == {0, 4}
NewEnds == {10, 16}
BuilderStarts == {-10, 4, 12}
BuilderEnds == {6, 16}
BuilderCurrents == {5, MaxValue}
Steps == {2, 5, 10}
Rates == {-10, 0, 15}
SetValues == (-MaxValue) .. MaxValue
Deltas == {-20, -1, 0, 1, 20}

NoResult == [kind |-> "None"]
NoOp == [op |-> "none", arg |-> 0]

\* ---- one Range: construction, then use ----
RangeIdle ==
    /\ range = RangeDefault
    /\ rphase = "idle"
    /\ prev = RangeDefault
    /\ lastOp = NoOp
    /\ result = NoResult
    /\ touched = FALSE

InitRange ==
    /\ \/ \E s \in NewStarts, e \in NewEnds :
            /\ range = RangeNew(s, e)
            /\ lastOp = [op |-> "new", arg |-> <<s, e>>]
       \/ /\ range = RangeDefault
          /\ lastOp = [op |-> "default", arg |-> 0]
    /\ rphase = "build"
    /\ prev = range
    /\ result = NoResult
    /\ touched = FALSE

Builder(name, arg, r) ==
    /\ rphase = "build"
    /\ prev' = range
    /\ range' = r
    /\ lastOp' = [op |-> name, arg |-> arg]
    /\ UNCHANGED <<rphase, result, touched>>
    /\ UNCHANGED notRangeVars

WithStart == \E s \in BuilderStarts : Builder("with_start", s, with_start(range, s))
WithEnd == \E e \in BuilderEnds : Builder("with_end", e, with_end(range, e))
WithCurrent == \E c \in BuilderCurrents : Builder("with_current", c, with_current(range, c))
WithQuantize == \E q \in Steps : Builder("with_quantize", q, with_quantize(range, q))
WithChangePerSecond ==
    \E c \in Rates : Builder("with_change_per_second", c, with_change_per_second(range, c))

\* The builder expression is complete: the value is stored and used from now on.
Spawn ==
    /\ rphase = "build"
    /\ rphase' = "live"
    /\ prev' = range
    /\ lastOp' = [op |-> "spawn", arg |-> 0]
    /\ UNCHANGED <<range, result, touched>>
    /\ UNCHANGED notRangeVars

Set ==
    /\ rphase = "live"
    /\ \E v \in SetValues :
        /\ range' = set(range, v).range
        /\ result' = set(range, v).result
        /\ lastOp' = [op |-> "set", arg |-> v]
    /\ prev' = range
    /\ touched' = TRUE
    /\ UNCHANGED rphase
    /\ UNCHANGED notRangeVars

Modify ==
    /\ rphase = "live"
    /\ \E d \in Deltas :
        /\ range' = modify(range, d).range
        /\ result' = modify(range, d).result
        /\ lastOp' = [op |-> "modify", arg |-> d]
    /\ prev' = range
    /\ touched' = TRUE
    /\ UNCHANGED rphase
    /\ UNCHANGED notRangeVars

SetQuantize ==
    /\ rphase = "live"
    /\ \E q \in Steps :
        /\ range' = set_quantize(range, q)
        /\ lastOp' = [op |-> "set_quantize", arg |-> q]
    /\ prev' = range
    /\ result' = NoResult
    /\ UNCHANGED <<rphase, touched>>
    /\ UNCHANGED notRangeVars

SetChangePerSecond ==
    /\ rphase = "live"
    /\ \E c \in Rates :
        /\ range' = set_change_per_second(range, c)
        /\ lastOp' = [op |-> "set_change_per_second", arg |-> c]
    /\ prev' = range
    /\ result' = NoResult
    /\ UNCHANGED <<rphase, touched>>
    /\ UNCHANGED notRangeVars

NextRange ==
    \/ WithStart
    \/ WithEnd
    \/ WithCurrent
    \/ WithQuantize
    \/ WithChangePerSecond
    \/ Spawn
    \/ Set
    \/ Modify
    \/ SetQuantize
    \/ SetChangePerSecond

(***************************************************************************)
(* range.rs: update_range on a world of entities                           *)
(***************************************************************************)

Entities == {"e1", "e2"}

\* Frame times (Time::delta_seconds, fixed-point seconds) and rates are chosen
\* so that every product rate * time is an exact fixed-point number.
FrameTimes == {0, 5, 10}
WorldRates == {-20, 0, 4}
WorldDeltas == {-3, 3}

\* f32 multiplication of two fixed-point numbers.
Mul(a, b) == (a * b) \div Unit

\* The ranges the entities are spawned with: Range::new(..).with_change_per_second(..)
WorldRanges ==
    {with_change_per_second(RangeNew(0, e), c) : e \in {6, Unit}, c \in WorldRates}

\* Variant: any limit result sends both events.
UpdateOneBothEvents(st, entity, dt) ==
    LET r == st.world[entity]
        change_per_second == r.change_per_second
        m == modify(r, Mul(change_per_second, dt))
        hit == m.result.kind # "Ok"
    IN  [world |-> [st.world EXCEPT ![entity] = m.range],
         startEvents |-> IF hit THEN Append(st.startEvents, entity) ELSE st.startEvents,
         endEvents |-> IF hit THEN Append(st.endEvents, entity) ELSE st.endEvents]

\* One iteration of the loop of update_range: modify the range of `entity` and
\* send the event its result asks for.  st = [world, startEvents, endEvents].
UpdateOne(st, entity, dt) ==
    LET r == st.world[entity]
        change_per_second == r.change_per_second
        m == modify(r, Mul(change_per_second, dt))
    IN  [world |-> [st.world EXCEPT ![entity] = m.range],
         startEvents |->
            IF m.result.kind = "StartLimitReached"
            THEN Append(st.startEvents, entity) ELSE st.startEvents,
         endEvents |->
            IF m.result.kind = "EndLimitReached"
            THEN Append(st.endEvents, entity) ELSE st.endEvents]

\* for (entity, mut range) in range_query.iter_mut(), in the order the query yields
RECURSIVE UpdateLoop(_, _, _)
UpdateLoop(st, order, dt) ==
    IF order = <<>> THEN st
    ELSE UpdateLoop(UpdateOne(st, Head(order), dt), Tail(order), dt)

\* The orders in which a query can yield the entities.
QueryOrders ==
    {o \in [1 .. Cardinality(Entities) -> Entities] :
        \A i, j \in DOMAIN o : i # j => o[i] # o[j]}

WorldIdle ==
    /\ world = <<>>
    /\ worldPrev = <<>>
    /\ frame = [ran |-> FALSE, dt |-> 0]
    /\ startEvents = <<>>
    /\ endEvents = <<>>

InitWorld ==
    /\ world \in [Entities -> WorldRanges]
    /\ worldPrev = world
    /\ frame = [ran |-> FALSE, dt |-> 0]
    /\ startEvents = <<>>
    /\ endEvents = <<>>

\* The system update_range, run once per frame (Update schedule).  The event
\* variables hold what this run sent.
UpdateRange ==
    /\ \E dt \in FrameTimes, order \in QueryOrders :
        LET st == UpdateLoop([world |-> world, startEvents |-> <<>>, endEvents |-> <<>>],
                             order, dt)
        IN  /\ world' = st.world
            /\ startEvents' = st.startEvents
            /\ endEvents' = st.endEvents
            /\ frame' = [ran |-> TRUE, dt |-> dt]
    /\ worldPrev' = world
    /\ UNCHANGED notWorldVars

\* Another system changes a range between two runs of update_range:
\* range.modify(delta), as for damage or healing.
WorldModify ==
    /\ \E e \in Entities, d \in WorldDeltas :
        world' = [world EXCEPT ![e] = modify(world[e], d).range]
    /\ worldPrev' = world
    /\ frame' = [ran |-> FALSE, dt |-> 0]
    /\ UNCHANGED <<startEvents, endEvents>>
    /\ UNCHANGED notWorldVars

\* range.set_change_per_second(c), as detect_range_limit of the x_axis_range example.
WorldSetChangePerSecond ==
    /\ \E e \in Entities, c \in WorldRates :
        world' = [world EXCEPT ![e] = set_change_per_second(world[e], c)]
    /\ worldPrev' = world
    /\ frame' = [ran |-> FALSE, dt |-> 0]
    /\ UNCHANGED <<startEvents, endEvents>>
    /\ UNCHANGED notWorldVars

NextUpdate ==
    \/ UpdateRange
    \/ WorldModify
    \/ WorldSetChangePerSecond

(***************************************************************************)
(* audio_loop.rs                                                           *)
(***************************************************************************)

\* extracted_data.len(): the number of decoded samples of the file.
DataLen == 4

\* sample_rate and channels of the decoded file: 2 samples per second of audio,
\* so that the file is DataLen / 2 seconds long.
SampleRate == 1
Channels == 2

\* f32::MAX, the loop end the loader gives a source.
F32Max == 1000000

\* Largest magnitude of a loop point that LoopOffset events may move a loop to.
MaxTime == 20

\* Option<f32>, Option<Item>
None == <<>>
Some(x) == <<x>>
UnwrapOr(o, d) == IF o # <<>> THEN o[1] ELSE d

\* f32 addition and subtraction: f32::MAX absorbs every offset of the model.
FAdd(a, b) == IF a = F32Max THEN F32Max ELSE a + b
FSub(a, b) == IF a = F32Max THEN F32Max ELSE a - b

\* (position * sample_rate as f32 * channels as f32) as usize: the cast
\* truncates and saturates, so a negative position is index 0.
ToIndex(position) ==
    IF position <= 0 THEN 0
    ELSE (position * SampleRate * Channels) \div Unit

\* current_position as f32 / sample_rate as f32 / channels as f32
ToSeconds(index) == ((index * Unit) \div SampleRate) \div Channels

\* LoopableAudioSource::new
AudioNew(loop_start, loop_end) ==
    [loop_start |-> loop_start, loop_end |-> loop_end,
     future_loop_start |-> None, future_loop_end |-> None,
     current_position |-> 0]

\* Variant: the immediate setter also drops the pending loop start.
ImmediateStartDropsPending(a, loop_start) ==
    [a EXCEPT !.loop_start = loop_start, !.future_loop_start = None]

set_loop_start_immediate(a, loop_start) == [a EXCEPT !.loop_start = loop_start]
set_loop_end_immediate(a, loop_end) == [a EXCEPT !.loop_end = loop_end]

set_loop_start(a, loop_start) == [a EXCEPT !.future_loop_start = Some(loop_start)]
set_loop_end(a, loop_end) == [a EXCEPT !.future_loop_end = Some(loop_end)]

add_loop_offset(a, offset) ==
    LET loop_start == UnwrapOr(a.future_loop_start, a.loop_start)
        loop_end == UnwrapOr(a.future_loop_end, a.loop_end)
        range_ == FSub(loop_end, loop_start)
        new_loop_start == IF loop_start < 0 THEN 0 ELSE FAdd(loop_start, offset)
        new_loop_end == IF loop_start < 0 THEN range_ ELSE FAdd(loop_end, offset)
    IN  set_loop_end(set_loop_start(a, new_loop_start), new_loop_end)

set_position(a, position) == [a EXCEPT !.current_position = ToIndex(position)]
get_position(a) == ToSeconds(a.current_position)

set_loop_and_pos_immediate(a, loop_start, loop_end, position) ==
    [set_position(
        set_loop_end_immediate(set_loop_start_immediate(a, loop_start), loop_end),
        position)
     EXCEPT !.future_loop_start = None, !.future_loop_end = None]

move_loop_offset(a, offset) ==
    LET loop_start == UnwrapOr(a.future_loop_start, a.loop_start)
        loop_end == UnwrapOr(a.future_loop_end, a.loop_end)
        range_ == FSub(loop_end, loop_start)
        position_offset == get_position(a) - loop_start
        new_loop_start == IF loop_start < 0 THEN 0 ELSE FAdd(loop_start, offset)
        new_loop_end == IF loop_start < 0 THEN range_ ELSE FAdd(loop_end, offset)
    IN  set_position(
            set_loop_end_immediate(set_loop_start_immediate(a, new_loop_start),
                                   new_loop_end),
            new_loop_start + position_offset)

\* Variant: the pending loop points are taken over at the loop end already
\* (seconds >= loop_end) instead of past it.
NextSwapsAtLoopEnd(a) ==
    LET wrapped ==
            IF a.current_position >= DataLen THEN ToIndex(a.loop_start)
            ELSE a.current_position
        past == ToSeconds(wrapped) >= a.loop_end
        loop_start == IF past THEN UnwrapOr(a.future_loop_start, a.loop_start)
                      ELSE a.loop_start
        b == IF past
             THEN [loop_start |-> loop_start,
                   loop_end |-> UnwrapOr(a.future_loop_end, a.loop_end),
                   future_loop_start |-> None, future_loop_end |-> None,
                   current_position |-> ToIndex(loop_start)]
             ELSE [a EXCEPT !.current_position = wrapped]
    IN  IF b.current_position >= DataLen
        THEN [audio |-> b, played |-> None, panicked |-> TRUE]
        ELSE [audio |-> [b EXCEPT !.current_position = @ + 1],
              played |-> Some(b.current_position), panicked |-> FALSE]

\* Iterator::next: the source after the call, the index of the sample returned,
\* and whether indexing extracted_data panicked (the cursor is then not advanced).
next(a) ==
    LET loop_start0 == a.loop_start
        loop_end == a.loop_end
        \* if current_position >= extracted_data.len() { current_position = loop_start }
        wrapped ==
            IF a.current_position >= DataLen THEN ToIndex(loop_start0)
            ELSE a.current_position
        seconds == ToSeconds(wrapped)
        past == seconds > loop_end
        loop_start == IF past THEN UnwrapOr(a.future_loop_start, loop_start0)
                      ELSE loop_start0
        b == IF past
             THEN [loop_start |-> loop_start,
                   loop_end |-> UnwrapOr(a.future_loop_end, loop_end),
                   future_loop_start |-> None, future_loop_end |-> None,
                   current_position |-> ToIndex(loop_start)]
             ELSE [a EXCEPT !.current_position = wrapped]
    IN  IF b.current_position >= DataLen
        THEN [audio |-> b, played |-> None, panicked |-> TRUE]
        ELSE [audio |-> [b EXCEPT !.current_position = @ + 1],
              played |-> Some(b.current_position), panicked |-> FALSE]

\* ---- AudioLoopEvent (there is one asset, so the handle is left out) ----
\* Loop points in seconds: 0.7 is between two samples, 4.0 is beyond the file.
ImmediateStartTimes == {7}
ImmediateEndTimes == {10}
StartTimes == {7, 40}
EndTimes == {10, 15}
Offsets == {10}
LoopPositions == {<<0, F32Max, 0>>}
NewLoops == {<<0, F32Max>>, <<0, 10>>}

AudioLoopEvent ==
    {[kind |-> "StartPositionImmediate", position |-> p] : p \in ImmediateStartTimes}
    \cup {[kind |-> "EndPositionImmediate", position |-> p] : p \in ImmediateEndTimes}
    \cup {[kind |-> "StartPosition", position |-> p] : p \in StartTimes}
    \cup {[kind |-> "EndPosition", position |-> p] : p \in EndTimes}
    \cup {[kind |-> k, offset |-> o] :
        k \in {"LoopOffset", "LoopOffsetImmediate"}, o \in Offsets}
    \cup {[kind |-> "LoopPosition", loop_start |-> l[1], loop_end |-> l[2],
           position |-> l[3]] : l \in LoopPositions}

\* process_event with the asset in the store: the asset after the event.
apply_event(event, a) ==
    CASE event.kind = "StartPositionImmediate" ->
            set_loop_start_immediate(a, event.position)
      [] event.kind = "EndPositionImmediate" -> set_loop_end_immediate(a, event.position)
      [] event.kind = "StartPosition" -> set_loop_start(a, event.position)
      [] event.kind = "EndPosition" -> set_loop_end(a, event.position)
      [] event.kind = "LoopOffset" -> add_loop_offset(a, event.offset)
      [] event.kind = "LoopOffsetImmediate" -> move_loop_offset(a, event.offset)
      [] event.kind = "LoopPosition" ->
            set_loop_and_pos_immediate(a, event.loop_start, event.loop_end,
                                       event.position)

\* Variant: an event whose asset is not in the store is dropped.
ProcessEventDropsMissing(st, event, present) ==
    IF present
    THEN [st EXCEPT !.audio = apply_event(event, st.audio),
                    !.applied = Append(st.applied, event)]
    ELSE st

\* process_event: st = [audio, applied, kept]; the event is applied when the
\* asset is in the store (the function returns true) and kept for the buffer
\* otherwise (it returns false).
process_event(st, event, present) ==
    IF present
    THEN [st EXCEPT !.audio = apply_event(event, st.audio),
                    !.applied = Append(st.applied, event)]
    ELSE [st EXCEPT !.kept = Append(st.kept, event)]

RECURSIVE ProcessAll(_, _, _)
ProcessAll(st, events, present) ==
    IF events = <<>> THEN st
    ELSE ProcessAll(process_event(st, Head(events), present), Tail(events), present)

\* The events sent while the asset is loading: those of the setup system of
\* the audio-loop example, and a pending loop start.
SetupEvents ==
    {[kind |-> "EndPositionImmediate", position |-> 10],
     [kind |-> "StartPosition", position |-> 7]}

\* The longest buffer followed.
MaxBuffered == 2

\* What the EventReader yields in one run: the frames followed are those in which
\* no event or one event was sent; a run applies several events when it drains
\* the buffer.
BatchesOf(events) == {<<>>} \cup {<<e>> : e \in events}

\* A loop point within the magnitudes the model follows.
InTime(x) == x = F32Max \/ (-MaxTime <= x /\ x <= MaxTime)
AudioInBounds(a) ==
    /\ InTime(a.loop_start) \/ a.loop_start \in StartTimes
    /\ InTime(a.loop_end)
    /\ InTime(UnwrapOr(a.future_loop_start, 0))
            \/ UnwrapOr(a.future_loop_start, 0) \in StartTimes
    /\ InTime(UnwrapOr(a.future_loop_end, 0))
    /\ a.current_position <= DataLen \/ a.current_position = ToIndex(a.loop_start)

NoAudioOp == [op |-> "none", applied |-> <<>>, sent |-> <<>>, held |-> <<>>]

AudioIdle ==
    /\ audio = AudioNew(0, F32Max)
    /\ loaded = FALSE
    /\ buffered = <<>>
    /\ panicked = FALSE
    /\ played = None
    /\ audioPrev = audio
    /\ audioOp = NoAudioOp

\* App start: the handle exists, the asset is still loading.
InitAudio ==
    /\ audio = AudioNew(0, F32Max)
    /\ loaded = FALSE
    /\ buffered = <<>>
    /\ panicked = FALSE
    /\ played = None
    /\ audioPrev = audio
    /\ audioOp = NoAudioOp

\* The asset arrives in Assets<LoopableAudioSource>: from LoopedAudioLoader
\* (loop 0 .. f32::MAX) or built with LoopableAudioSource::new and added.
AddAsset ==
    /\ ~loaded
    /\ \E l \in NewLoops : audio' = AudioNew(l[1], l[2])
    /\ loaded' = TRUE
    /\ audioPrev' = audio
    /\ audioOp' = [NoAudioOp EXCEPT !.op = "load"]
    /\ UNCHANGED <<buffered, panicked, played>>
    /\ UNCHANGED notAudioVars

\* The audio thread pulls the next sample from the decoder.
NextSample ==
    /\ loaded
    /\ ~panicked
    /\ audio' = next(audio).audio
    /\ played' = next(audio).played
    /\ panicked' = next(audio).panicked
    /\ audioPrev' = audio
    /\ audioOp' = [NoAudioOp EXCEPT !.op = "next"]
    /\ UNCHANGED <<loaded, buffered>>
    /\ UNCHANGED notAudioVars

\* audio_loop_event_handler, once per frame (PostUpdate): first the buffered
\* events, then the events sent since the last run.
AudioLoopEventHandler ==
    /\ \E batch \in BatchesOf(IF loaded THEN AudioLoopEvent ELSE SetupEvents) :
        LET st0 == [audio |-> audio, applied |-> <<>>, kept |-> <<>>]
            st1 == ProcessAll(st0, buffered, loaded)
            \* buffered_events.append(&mut rebuffered_events)
            st2 == ProcessAll(st1, batch, loaded)
        IN  /\ Len(st2.kept) <= MaxBuffered
            /\ AudioInBounds(st2.audio)
            /\ audio' = st2.audio
            /\ buffered' = st2.kept
            /\ audioOp' = [op |-> "handler", applied |-> st2.applied,
                            sent |-> batch, held |-> buffered]
    /\ audioPrev' = audio
    /\ UNCHANGED <<loaded, panicked, played>>
    /\ UNCHANGED notAudioVars

NextAudio ==
    \/ AddAsset
    \/ NextSample
    \/ AudioLoopEventHandler

(***************************************************************************)
(* input.rs                                                                *)
(***************************************************************************)

\* KeyCode values and the Action type of the application.
Keys == {"ArrowUp", "KeyW"}
Actions == {"MoveUp", "Exit"}

\* enum UserButtonInput
KeyDown(key) == [kind |-> "KeyDown", key |-> key]
KeyUp(key) == [kind |-> "KeyUp", key |-> key]
KeyPressed(key) == [kind |-> "KeyPressed", key |-> key]
MouseScrollUp == [kind |-> "MouseScrollUp", key |-> "none"]
MouseScrollDown == [kind |-> "MouseScrollDown", key |-> "none"]

\* enum SliderMappingType
MouseMove(value) == [kind |-> "MouseMove", value |-> value]

\* From<(UserButtonInput, Action)> for ButtonMappingItem
ButtonMappingItem(input, action) == [input |-> input, action |-> action]

\* From<(SliderMappingType, Action, f32, f32)> and From<(SliderMappingType, Action, f32)>
\* for DirectionalSliderMappingItem
DirectionalSliderMappingItem(type, action, factor_x, factor_y) ==
    [slider_mapping_type |-> type, action |-> action,
     factor_x |-> factor_x, factor_y |-> factor_y]
DirectionalSliderMappingItem3(type, action, factor) ==
    DirectionalSliderMappingItem(type, action, factor, factor)

\* From<[(UserButtonInput, Action); N]> and From<([..; N], [..; M])> for InputMapping
InputMappingFrom(buttons, sliders) ==
    [button_mapping |-> buttons, slider_mapping |-> sliders]

\* InputMapping::add_button_mapping
add_button_mapping(m, item) ==
    [m EXCEPT !.button_mapping = Append(@, item)]

\* Variant: every mapping of the item's input is removed, whatever its action.
RemoveButtonByInput(m, item) ==
    [m EXCEPT !.button_mapping = SelectSeq(@, LAMBDA i : i.input # item.input)]

\* InputMapping::remove_button_mapping: retain(|i| i != item)
remove_button_mapping(m, item) ==
    [m EXCEPT !.button_mapping = SelectSeq(@, LAMBDA i : i # item)]

\* InputMapping::add_directional_mapping
add_directional_mapping(m, item) ==
    [m EXCEPT !.slider_mapping = Append(@, item)]

\* Variant: only the mappings equal to the item in every field are removed.
RemoveDirectionalEqual(m, item) ==
    [m EXCEPT !.slider_mapping = SelectSeq(@, LAMBDA i : i # item)]

\* InputMapping::remove_directional_mapping
remove_directional_mapping(m, item) ==
    [m EXCEPT !.slider_mapping =
        SelectSeq(@, LAMBDA i :
            i.action # item.action
                \/ i.slider_mapping_type # item.slider_mapping_type)]

\* Variant: KeyPressed matches only in the frame the key goes down.
MatchesPressedOnce(input, inp, scroll_up, scroll_down) ==
    CASE input.kind = "KeyDown" -> input.key \in inp.just_pressed
      [] input.kind = "KeyUp" -> input.key \in inp.just_released
      [] input.kind = "KeyPressed" -> input.key \in inp.just_pressed
      [] input.kind = "MouseScrollUp" -> scroll_up
      [] input.kind = "MouseScrollDown" -> scroll_down

\* The guards of the match arms of input_mapping_system.
Matches(input, inp, scroll_up, scroll_down) ==
    CASE input.kind = "KeyDown" -> input.key \in inp.just_pressed
      [] input.kind = "KeyUp" -> input.key \in inp.just_released
      [] input.kind = "KeyPressed" -> input.key \in inp.pressed
      [] input.kind = "MouseScrollUp" -> scroll_up
      [] input.kind = "MouseScrollDown" -> scroll_down

\* The DirectionSliderEvent of every motion event for every slider mapping.
SliderEventsOf(m, motion) ==
    LET sl == m.slider_mapping
    IN  IF sl = <<>> THEN <<>>
        ELSE [n \in 1 .. (Len(motion) * Len(sl)) |->
                LET event == motion[((n - 1) \div Len(sl)) + 1]
                    action == sl[((n - 1) % Len(sl)) + 1]
                IN  [action |-> action.action,
                     x |-> Mul(event.x, action.factor_x),
                     y |-> Mul(event.y, action.factor_y)]]

\* Variant: one ActionEvent for every matching mapping.
InputMappingSystemPerMapping(m, local, inp, order) ==
    LET scroll_up == \E i \in DOMAIN inp.scroll : inp.scroll[i] < 0
        scroll_down == \E i \in DOMAIN inp.scroll : inp.scroll[i] >= 0 /\ inp.scroll[i] > 0
        hit == SelectSeq(m.button_mapping,
                         LAMBDA item : Matches(item.input, inp, scroll_up, scroll_down))
    IN  [sent |-> [i \in DOMAIN hit |-> hit[i].action],
         actions |-> {},
         sliders |-> SliderEventsOf(m, inp.motion)]

\* input_mapping_system: the ActionEvents sent (sent), the Local set after the
\* run (actions) and the DirectionSliderEvents sent (sliders).  `order` is the
\* iteration order of the HashSet.
input_mapping_system(m, local, inp, order) ==
    LET scroll_up == \E i \in DOMAIN inp.scroll : inp.scroll[i] < 0
        \* else if scroll_event.y > 0.0
        scroll_down == \E i \in DOMAIN inp.scroll : inp.scroll[i] >= 0 /\ inp.scroll[i] > 0
        inserted ==
            local \cup
            {m.button_mapping[i].action :
                i \in {j \in DOMAIN m.button_mapping :
                        Matches(m.button_mapping[j].input, inp, scroll_up, scroll_down)}}
    IN  [sent |-> SelectSeq(order, LAMBDA a : a \in inserted),
         \* actions.clear()
         actions |-> {},
         sliders |-> SliderEventsOf(m, inp.motion)]

\* ---- inputs ----
\* What ButtonInput<KeyCode> can say about one key in one frame: pressed,
\* just_pressed, just_released.  A key pressed and released within the frame is
\* just_pressed and just_released but not pressed.
KeyStates ==
    {<<FALSE, FALSE, FALSE>>, <<TRUE, FALSE, FALSE>>, <<TRUE, TRUE, FALSE>>,
     <<FALSE, FALSE, TRUE>>, <<FALSE, TRUE, TRUE>>, <<TRUE, TRUE, TRUE>>}
\* The y of the MouseWheel events of one frame, and the MouseMotion deltas.
ScrollBatches == {<<>>, <<-10>>, <<10, 0>>, <<-10, 10>>}
MotionBatches == {<<>>, <<[x |-> 20, y |-> -10]>>}
FrameInputs ==
    {[pressed |-> {k \in Keys : ks[k][1]},
      just_pressed |-> {k \in Keys : ks[k][2]},
      just_released |-> {k \in Keys : ks[k][3]},
      scroll |-> s, motion |-> mo] :
        ks \in [Keys -> KeyStates], s \in ScrollBatches, mo \in MotionBatches}

\* The orders a HashSet<Action> can iterate in.
HashOrders ==
    {o \in [1 .. Cardinality(Actions) -> Actions] :
        \A a \in Actions : \E i \in DOMAIN o : o[i] = a}

\* The mappings an application installs: the two keys of MoveUp of
\* setup_top_down_mapping, the mapping of the test, and one with every kind
\* of button input.
Setups ==
    {InputMappingFrom(<<>>, <<>>),
     InputMappingFrom(
        <<ButtonMappingItem(KeyPressed("ArrowUp"), "MoveUp"),
          ButtonMappingItem(KeyPressed("KeyW"), "MoveUp")>>, <<>>),
     InputMappingFrom(
        <<ButtonMappingItem(KeyDown("KeyW"), "MoveUp"),
          ButtonMappingItem(KeyUp("KeyW"), "Exit")>>,
        <<DirectionalSliderMappingItem(MouseMove(5), "MoveUp", 5, 5)>>),
     InputMappingFrom(
        <<ButtonMappingItem(KeyDown("ArrowUp"), "Exit"),
          ButtonMappingItem(MouseScrollUp, "MoveUp"),
          ButtonMappingItem(MouseScrollDown, "Exit"),
          ButtonMappingItem(KeyPressed("KeyW"), "Exit")>>,
        <<DirectionalSliderMappingItem3(MouseMove(5), "MoveUp", 10),
          DirectionalSliderMappingItem(MouseMove(10), "Exit", 5, 10)>>)}

\* The items given to the add and remove methods.
ButtonItems ==
    {ButtonMappingItem(KeyDown("KeyW"), "MoveUp"),
     ButtonMappingItem(KeyUp("KeyW"), "Exit"),
     ButtonMappingItem(KeyPressed("ArrowUp"), "MoveUp")}
RemovedButtonItems ==
    ButtonItems \cup
    {ButtonMappingItem(KeyDown("KeyW"), "Exit"),
     ButtonMappingItem(KeyDown("ArrowUp"), "MoveUp")}
SliderItems ==
    {DirectionalSliderMappingItem(MouseMove(5), "MoveUp", 5, 5),
     DirectionalSliderMappingItem(MouseMove(5), "MoveUp", 1, 1),
     DirectionalSliderMappingItem(MouseMove(5), "Exit", 5, 5),
     DirectionalSliderMappingItem(MouseMove(10), "MoveUp", 5, 5)}

\* The longest mapping lists followed.
MaxButtonMappings == 3
MaxSliderMappings == 3

NoInput ==
    [pressed |-> {}, just_pressed |-> {}, just_released |-> {},
     scroll |-> <<>>, motion |-> <<>>]
NoItem == [input |-> [kind |-> "none", key |-> "none"], action |-> "none"]
NoInputOp == [op |-> "none", input |-> NoInput, item |-> NoItem]

InputIdle ==
    /\ mapping = InputMappingFrom(<<>>, <<>>)
    /\ mappingPrev = mapping
    /\ actions = {}
    /\ actionEvents = <<>>
    /\ sliderEvents = <<>>
    /\ inputOp = NoInputOp

\* Startup: no InputMapping has been installed yet.
InitInput == InputIdle

\* commands.insert_resource(mapping)
InsertMapping ==
    /\ \E m \in Setups : mapping' = m
    /\ mappingPrev' = mapping
    /\ inputOp' = [NoInputOp EXCEPT !.op = "insert"]
    /\ actionEvents' = <<>>
    /\ sliderEvents' = <<>>
    /\ UNCHANGED actions
    /\ UNCHANGED notInputVars

\* One frame: input_mapping_system runs on the input of the frame.
InputMappingSystem ==
    /\ \E inp \in FrameInputs, order \in HashOrders :
        LET r == input_mapping_system(mapping, actions, inp, order)
        IN  /\ actionEvents' = r.sent
            /\ actions' = r.actions
            /\ sliderEvents' = r.sliders
            /\ inputOp' = [NoInputOp EXCEPT !.op = "frame", !.input = inp]
    /\ mappingPrev' = mapping
    /\ UNCHANGED mapping
    /\ UNCHANGED notInputVars

NextInput ==
    \/ InsertMapping
    \/ InputMappingSystem

\* A call of one of the methods of InputMapping between two frames.
MappingCall(name, item, m) ==
    /\ mapping' = m
    /\ mappingPrev' = mapping
    /\ inputOp' = [NoInputOp EXCEPT !.op = name, !.item = item]
    /\ actionEvents' = <<>>
    /\ sliderEvents' = <<>>
    /\ UNCHANGED actions
    /\ UNCHANGED notInputVars

AddButtonMapping ==
    /\ Len(mapping.button_mapping) < MaxButtonMappings
    /\ \E item \in ButtonItems :
        MappingCall("add_button_mapping", item, add_button_mapping(mapping, item))

RemoveButtonMapping ==
    /\ \E item \in RemovedButtonItems :
        MappingCall("remove_button_mapping", item, remove_button_mapping(mapping, item))

AddDirectionalMapping ==
    /\ Len(mapping.slider_mapping) < MaxSliderMappings
    /\ \E item \in SliderItems :
        MappingCall("add_directional_mapping", item,
                    add_directional_mapping(mapping, item))

RemoveDirectionalMapping ==
    /\ \E item \in SliderItems :
        MappingCall("remove_directional_mapping", item,
                    remove_directional_mapping(mapping, item))

NextMapping ==
    \/ AddButtonMapping
    \/ RemoveButtonMapping
    \/ AddDirectionalMapping
    \/ RemoveDirectionalMapping

(***************************************************************************)
(* collision_detection.rs                                                  *)
(***************************************************************************)

\* The entities of the world, and the two components of the plugin.
Colliders == {"duck", "other", "wall"}
ComponentSets == SUBSET {"C1", "C2"}

\* CollisionEvent::Started(entity1, entity2, _), CollisionEvent::Stopped(..)
Started(entity1, entity2) ==
    [kind |-> "Started", entity1 |-> entity1, entity2 |-> entity2]
Stopped(entity1, entity2) ==
    [kind |-> "Stopped", entity1 |-> entity1, entity2 |-> entity2]

\* c1_query.get(entity) / c2_query.get(entity) is Ok
HasC1(comps, entity) == "C1" \in comps[entity]
HasC2(comps, entity) == "C2" \in comps[entity]

\* Variant: the second branch sends the entities in the order of the physics event.
OrderedPairPhysicsOrder(comps, entity1, entity2) ==
    IF HasC1(comps, entity1) /\ HasC2(comps, entity2) THEN <<<<entity1, entity2>>>>
    ELSE IF HasC1(comps, entity2) /\ HasC2(comps, entity1) THEN <<<<entity1, entity2>>>>
    ELSE <<>>

\* The if / else if of one match arm: the event to send, if any.
OrderedPair(comps, entity1, entity2) ==
    IF HasC1(comps, entity1) /\ HasC2(comps, entity2) THEN <<<<entity1, entity2>>>>
    ELSE IF HasC1(comps, entity2) /\ HasC2(comps, entity1) THEN <<<<entity2, entity1>>>>
    ELSE <<>>

\* collision_detection_system: st = [start, stop], the events sent so far.
RECURSIVE collision_detection_system(_, _, _)
collision_detection_system(st, events, comps) ==
    IF events = <<>> THEN st
    ELSE LET event == Head(events)
             sent == OrderedPair(comps, event.entity1, event.entity2)
             st1 == IF event.kind = "Started"
                    THEN [st EXCEPT !.start = @ \o sent]
                    ELSE [st EXCEPT !.stop = @ \o sent]
         IN  collision_detection_system(st1, Tail(events), comps)

\* ---- inputs ----
\* What the EventReader yields in one run: nothing, one event, or a contact
\* that starts and stops (reported with the entities in either order).
CollisionPairs == {p \in Colliders \X Colliders : p[1] # p[2]}
CollisionBatches ==
    {<<>>}
    \cup {<<Started(p[1], p[2])>> : p \in CollisionPairs}
    \cup {<<Stopped(p[1], p[2])>> : p \in CollisionPairs}
    \cup {<<Started(p[1], p[2]), Stopped(p[2], p[1])>> : p \in CollisionPairs}

CollisionIdle ==
    /\ components = [e \in Colliders |-> {}]
    /\ collisionEvents = <<>>
    /\ collisionEventStart = <<>>
    /\ collisionEventStop = <<>>
    /\ collisionOp = "none"

\* Startup: no entity carries C1 or C2 yet.
InitCollision == CollisionIdle

\* An entity is spawned with, gets or loses components, or is despawned.
SetComponents ==
    /\ \E e \in Colliders, c \in ComponentSets :
        /\ c # components[e]
        /\ components' = [components EXCEPT ![e] = c]
    /\ collisionOp' = "components"
    /\ UNCHANGED <<collisionEvents, collisionEventStart, collisionEventStop>>
    /\ UNCHANGED notCollisionVars

\* One frame: collision_detection_system runs on the CollisionEvents of the frame.
CollisionDetectionSystem ==
    /\ \E events \in CollisionBatches :
        LET st == collision_detection_system([start |-> <<>>, stop |-> <<>>],
                                              events, components)
        IN  /\ collisionEvents' = events
            /\ collisionEventStart' = st.start
            /\ collisionEventStop' = st.stop
    /\ collisionOp' = "system"
    /\ UNCHANGED components
    /\ UNCHANGED notCollisionVars

NextCollision ==
    \/ SetComponents
    \/ CollisionDetectionSystem

(***************************************************************************)
(* despawn.rs: AutoDespawn                                                 *)
(***************************************************************************)

\* Timer::from_seconds(duration, TimerMode::Once)
TimerFromSeconds(duration) ==
    [duration |-> duration, elapsed |-> 0, finished |-> FALSE,
     times_finished_this_tick |-> 0]

\* Variant: the timer finishes only once the elapsed time is beyond the duration.
TimerTickBeyond(timer, delta) ==
    IF timer.finished THEN [timer EXCEPT !.times_finished_this_tick = 0]
    ELSE IF timer.elapsed + delta > timer.duration
    THEN [timer EXCEPT !.elapsed = timer.duration, !.finished = TRUE,
                       !.times_finished_this_tick = 1]
    ELSE [timer EXCEPT !.elapsed = timer.elapsed + delta,
                       !.times_finished_this_tick = 0]

\* timer.tick(delta) of a TimerMode::Once timer: a finished timer stays as it
\* is; otherwise the time is added and the timer finishes, in this tick, when
\* the elapsed time has reached the duration.
TimerTick(timer, delta) ==
    IF timer.finished THEN [timer EXCEPT !.times_finished_this_tick = 0]
    ELSE IF timer.elapsed + delta >= timer.duration
    THEN [timer EXCEPT !.elapsed = timer.duration, !.finished = TRUE,
                       !.times_finished_this_tick = 1]
    ELSE [timer EXCEPT !.elapsed = timer.elapsed + delta,
                       !.times_finished_this_tick = 0]

\* Timer::just_finished
just_finished(timer) == timer.times_finished_this_tick > 0

\* enum AutoDespawn and its constructors
with_duration(duration) == [kind |-> "Timer", timer |-> TimerFromSeconds(duration)]
with_frames(frames) == [kind |-> "Frames", frames |-> frames]
AutoDespawnNew(duration) == with_duration(duration)

\* No entity: never spawned, or despawned.
NoEntity == [kind |-> "None"]

\* Variant: the entity is despawned in the run that counts its last frame down.
AutoDespawnOneAtLastFrame(c, delta) ==
    IF c.kind = "Timer"
    THEN LET timer == TimerTick(c.timer, delta)
         IN  [component |-> [c EXCEPT !.timer = timer], despawn |-> just_finished(timer)]
    ELSE IF c.frames <= 1
         THEN [component |-> [c EXCEPT !.frames = 0], despawn |-> TRUE]
         ELSE [component |-> [c EXCEPT !.frames = @ - 1], despawn |-> FALSE]

\* One iteration of the loop of auto_despawn_system: the component after it and
\* whether the despawn command was issued.
AutoDespawnOne(c, delta) ==
    IF c.kind = "Timer"
    THEN LET timer == TimerTick(c.timer, delta)
         IN  [component |-> [c EXCEPT !.timer = timer], despawn |-> just_finished(timer)]
    ELSE IF c.frames = 0
         THEN [component |-> c, despawn |-> TRUE]
         ELSE [component |-> [c EXCEPT !.frames = @ - 1], despawn |-> FALSE]

\* ---- inputs ----
Despawners == {"a", "b"}
\* Seconds, as fixed-point numbers like the values of a Range.
Durations == {0, 5, 12}
DeltaTimes == {0, 5, 10}
\* The largest argument of with_frames.
MaxFrames == 3
\* The runs of the system followed for one entity.
MaxRuns == 5

NoLifetime == [kind |-> "None", initial |-> 0, runs |-> 0, time |-> 0]

DespawnIdle ==
    /\ despawning = [e \in Despawners |-> NoEntity]
    /\ lifetime = [e \in Despawners |-> NoLifetime]
    /\ despawnCommands = {}
    /\ despawnOp = [op |-> "none", delta |-> 0]

\* Startup: nothing has been spawned yet.
InitDespawn == DespawnIdle

\* commands.spawn((.., AutoDespawn::with_duration(d))), or AutoDespawn::new(d)
SpawnWithDuration ==
    /\ \E e \in Despawners, d \in Durations :
        /\ despawning[e] = NoEntity
        /\ \E c \in {with_duration(d), AutoDespawnNew(d)} :
                despawning' = [despawning EXCEPT ![e] = c]
        /\ lifetime' = [lifetime EXCEPT
                            ![e] = [kind |-> "Timer", initial |-> d, runs |-> 0, time |-> 0]]
    /\ despawnCommands' = {}
    /\ despawnOp' = [op |-> "spawn", delta |-> 0]
    /\ UNCHANGED notDespawnVars

\* commands.spawn((.., AutoDespawn::with_frames(n)))
SpawnWithFrames ==
    /\ \E e \in Despawners, n \in 0 .. MaxFrames :
        /\ despawning[e] = NoEntity
        /\ despawning' = [despawning EXCEPT ![e] = with_frames(n)]
        /\ lifetime' = [lifetime EXCEPT
                            ![e] = [kind |-> "Frames", initial |-> n, runs |-> 0, time |-> 0]]
    /\ despawnCommands' = {}
    /\ despawnOp' = [op |-> "spawn", delta |-> 0]
    /\ UNCHANGED notDespawnVars

\* One frame: auto_despawn_system runs with time.delta() = delta, and the
\* despawn commands it issued are applied.
AutoDespawnSystem ==
    /\ \A e \in Despawners : lifetime[e].runs < MaxRuns
    /\ \E delta \in DeltaTimes :
        LET alive == {e \in Despawners : despawning[e] # NoEntity}
            after == [e \in alive |-> AutoDespawnOne(despawning[e], delta)]
        IN  /\ despawnCommands' = {e \in alive : after[e].despawn}
            /\ despawning' =
                    [e \in Despawners |->
                        IF e \notin alive \/ after[e].despawn THEN NoEntity
                        ELSE after[e].component]
            /\ lifetime' =
                    [e \in Despawners |->
                        IF e \in alive
                        THEN [lifetime[e] EXCEPT !.runs = @ + 1, !.time = @ + delta]
                        ELSE lifetime[e]]
            /\ despawnOp' = [op |-> "system", delta |-> delta]
    /\ UNCHANGED notDespawnVars

NextDespawn ==
    \/ SpawnWithDuration
    \/ SpawnWithFrames
    \/ AutoDespawnSystem

(***************************************************************************)
(* despawn.rs: Cleanup                                                     *)
(***************************************************************************)

\* The values of the States type of the application.
GameStates == {"Start", "End", "Pause"}
CleanupEntities == {"camera", "duck", "hud"}

\* An entity with Cleanup(state), an entity without a Cleanup component, and a
\* despawned entity.
Cleanup(state) == [alive |-> TRUE, cleanup |-> <<state>>]
NoCleanup == [alive |-> TRUE, cleanup |-> <<>>]
Despawned == [alive |-> FALSE, cleanup |-> <<>>]

\* Variant: every entity with a Cleanup component is despawned.
CleanupSystemAnyState(state, w) ==
    [e \in DOMAIN w |-> IF w[e].alive /\ w[e].cleanup # <<>> THEN Despawned ELSE w[e]]

\* cleanup_system(state): the closure, run on the entities w.
cleanup_system(state, w) ==
    [e \in DOMAIN w |->
        IF w[e].alive /\ w[e].cleanup # <<>> /\ w[e].cleanup[1] = state
        THEN Despawned ELSE w[e]]

\* CleanupPlugin(s)::build: the system is in the schedule OnExit(s) only.
OnExit(plugin, exited, w) ==
    IF exited = plugin THEN cleanup_system(plugin, w) ELSE w

CleanupIdle ==
    /\ pluginState = "Start"
    /\ gameState = "Start"
    /\ cleanups = [e \in CleanupEntities |-> Despawned]
    /\ cleanupsPrev = cleanups
    /\ cleanupOp = [op |-> "none", exited |-> "Start", entered |-> "Start"]

\* App::new().add_plugins(CleanupPlugin(s)).add_state::<S>(): the application
\* chooses s and the state it starts in.
InitCleanup ==
    /\ pluginState \in GameStates
    /\ gameState \in GameStates
    /\ cleanups = [e \in CleanupEntities |-> Despawned]
    /\ cleanupsPrev = cleanups
    /\ cleanupOp = [op |-> "none", exited |-> gameState, entered |-> gameState]

\* commands.spawn((.., Cleanup(state))) or commands.spawn(..) without Cleanup
SpawnCleanup ==
    /\ \E e \in CleanupEntities,
          c \in {Cleanup(s) : s \in GameStates} \cup {NoCleanup} :
        /\ ~cleanups[e].alive
        /\ cleanups' = [cleanups EXCEPT ![e] = c]
    /\ cleanupsPrev' = cleanups
    /\ cleanupOp' = [cleanupOp EXCEPT !.op = "spawn"]
    /\ UNCHANGED <<pluginState, gameState>>
    /\ UNCHANGED notCleanupVars

\* next_state.set(entered): the state transition runs OnExit(gameState) and then
\* OnEnter(entered); the plugin has no system in any OnEnter schedule.
StateTransition ==
    /\ \E entered \in GameStates \ {gameState} :
        /\ cleanups' = OnExit(pluginState, gameState, cleanups)
        /\ gameState' = entered
        /\ cleanupOp' = [op |-> "transition", exited |-> gameState, entered |-> entered]
    /\ cleanupsPrev' = cleanups
    /\ UNCHANGED pluginState
    /\ UNCHANGED notCleanupVars

NextCleanup ==
    \/ SpawnCleanup
    \/ StateTransition

(***************************************************************************)
(* camera_2d.rs                                                            *)
(***************************************************************************)

\* Vec3, with coordinates and distances as fixed-point numbers (n stands for
\* n / Unit), like the speed; the frame time is in the same representation.
Vec3(x, y, z) == [x |-> x, y |-> y, z |-> z]

\* The precision of a normalized vector: its components are kept to 1 / Precision.
Precision == 100

\* The largest integer r with r * r <= n, for n below 2^31.
RECURSIVE SqrtBetween(_, _, _)
SqrtBetween(n, lo, hi) ==
    IF lo = hi THEN lo
    ELSE LET mid == (lo + hi + 1) \div 2
         IN  IF mid * mid <= n THEN SqrtBetween(n, mid, hi)
             ELSE SqrtBetween(n, lo, mid - 1)
ISqrt(n) == SqrtBetween(n, 0, 46340)

\* movement_vector.length() < limit, for the vector (x, y, 0)
LengthBelow(x, y, limit) == limit > 0 /\ x * x + y * y < limit * limit

\* One component of movement_vector.normalize_or_zero() * distance, rounded
\* to the nearest number of the representation; exact when the length of the
\* vector and the result are numbers of the representation.
Toward(component, x, y, distance) ==
    IF x = 0 /\ y = 0 THEN 0
    ELSE Round(component * distance * Precision,
               ISqrt((x * x + y * y) * Precision * Precision))

\* Camera2DController::new_follow_with_speed
new_follow_with_speed(target_entity, speed) ==
    [speed |-> speed, allowed_distance |-> 100 * Unit, mode |-> "Follow",
     target_entity |-> target_entity, is_at_target |-> TRUE]

\* Variant: Follow keeps the camera within the band on the x axis only.
Camera2DFollowXOnly(cam, target, delta) ==
    LET c == cam.translation
        a == cam.controller.allowed_distance
        mx == target.x - c.x
        x1 == IF mx < -a THEN target.x + a ELSE c.x
        x2 == IF mx > a THEN target.x - a ELSE x1
    IN  [translation |-> [c EXCEPT !.x = x2],
         controller |-> [cam.controller EXCEPT !.is_at_target = TRUE]]

\* The Camera2DMode::Follow arm of camera_2d_controller_system.
Camera2DFollow(cam, target, delta) ==
    LET c == cam.translation
        a == cam.controller.allowed_distance
        \* movement_vector = target_transform.translation - camera_transform.translation
        mx == target.x - c.x
        my == target.y - c.y
        x1 == IF mx < -a THEN target.x + a ELSE c.x
        x2 == IF mx > a THEN target.x - a ELSE x1
        y1 == IF my < -a THEN target.y + a ELSE c.y
        y2 == IF my > a THEN target.y - a ELSE y1
    IN  [translation |-> [c EXCEPT !.x = x2, !.y = y2],
         controller |-> [cam.controller EXCEPT !.is_at_target = TRUE]]

\* Variant: Move snaps as soon as the remaining distance is not above the step.
Camera2DMoveSnapAtStep(cam, target, delta) ==
    LET c == cam.translation
        mx == target.x - c.x
        my == target.y - c.y
        step == Mul(cam.controller.speed, delta)
    IN  IF mx * mx + my * my <= step * step
        THEN [translation |-> [c EXCEPT !.x = target.x, !.y = target.y],
              controller |-> [cam.controller EXCEPT !.is_at_target = TRUE]]
        ELSE [translation |->
                [c EXCEPT !.x = @ + Toward(mx, mx, my, step),
                          !.y = @ + Toward(my, mx, my, step)],
              controller |-> [cam.controller EXCEPT !.is_at_target = FALSE]]

\* The Camera2DMode::Move arm of camera_2d_controller_system.
Camera2DMove(cam, target, delta) ==
    LET c == cam.translation
        mx == target.x - c.x
        my == target.y - c.y
        \* controller.speed / (1.0 / time.delta_seconds())
        step == Mul(cam.controller.speed, delta)
    IN  IF LengthBelow(mx, my, step)
        THEN [translation |-> [c EXCEPT !.x = target.x, !.y = target.y],
              controller |-> [cam.controller EXCEPT !.is_at_target = TRUE]]
        ELSE [translation |->
                [c EXCEPT !.x = @ + Toward(mx, mx, my, step),
                          !.y = @ + Toward(my, mx, my, step)],
              controller |-> [cam.controller EXCEPT !.is_at_target = FALSE]]

\* The body of the loop of camera_2d_controller_system for one camera; tgts is
\* what target_query can find.
camera_2d_controller_system(cam, tgts, delta) ==
    LET found == tgts[cam.controller.target_entity]
    IN  IF found = <<>> THEN cam
        ELSE IF cam.controller.mode = "Follow"
        THEN Camera2DFollow(cam, found[1], delta)
        ELSE Camera2DMove(cam, found[1], delta)

\* ---- inputs ----
TargetEntities == {"duck1", "duck2"}
\* Where the followed entity can be, and where the other one is.
Duck1Positions == {Vec3(0, 0, 0), Vec3(30, 40, 0)}
Duck2Position == Vec3(60, 80, 20)
CameraStart == Vec3(0, 0, 990)
Speeds == {0, 50}
AllowedDistances == {0, 30, -20}
CameraDeltas == {0, 5, 10}

CameraIdle ==
    /\ camera = [translation |-> CameraStart,
                 controller |-> new_follow_with_speed("duck1", 0)]
    /\ cameraPrev = camera
    /\ targets = [e \in TargetEntities |-> <<>>]
    /\ cameraOp = [op |-> "none", delta |-> 0]

\* setup: the camera is spawned with a controller that follows duck1; the
\* fields of the controller are public and set by the application.
InitCamera ==
    /\ \E speed \in Speeds, a \in AllowedDistances :
        camera = [translation |-> CameraStart,
                  controller |-> [new_follow_with_speed("duck1", speed)
                                    EXCEPT !.allowed_distance = a]]
    /\ cameraPrev = camera
    /\ targets \in {[duck1 |-> <<Vec3(0, 0, 0)>>, duck2 |-> d2] :
                        d2 \in {<<>>, <<Duck2Position>>}}
    /\ cameraOp = [op |-> "none", delta |-> 0]

\* The followed entity moves.
MoveTarget ==
    /\ \E p \in Duck1Positions :
        /\ targets["duck1"] # <<p>>
        /\ targets' = [targets EXCEPT !["duck1"] = <<p>>]
    /\ cameraPrev' = camera
    /\ cameraOp' = [op |-> "target", delta |-> 0]
    /\ UNCHANGED camera
    /\ UNCHANGED notCameraVars

\* The application sets the mode and the target of the controller.
SetController ==
    /\ \E mode \in {"Follow", "Move"}, e \in TargetEntities :
        /\ <<mode, e>> # <<camera.controller.mode, camera.controller.target_entity>>
        /\ camera' = [camera EXCEPT !.controller.mode = mode,
                                    !.controller.target_entity = e]
    /\ cameraPrev' = camera
    /\ cameraOp' = [op |-> "controller", delta |-> 0]
    /\ UNCHANGED targets
    /\ UNCHANGED notCameraVars

\* One frame: camera_2d_controller_system runs with time.delta_seconds() = delta.
Camera2DControllerSystem ==
    /\ \E delta \in CameraDeltas :
        /\ camera' = camera_2d_controller_system(camera, targets, delta)
        /\ cameraOp' = [op |-> "system", delta |-> delta]
    /\ cameraPrev' = camera
    /\ UNCHANGED targets
    /\ UNCHANGED notCameraVars

NextCamera ==
    \/ MoveTarget
    \/ SetController
    \/ Camera2DControllerSystem

(***************************************************************************)
(* Specifications                                                          *)
(***************************************************************************)

InitSpecRange ==
    /\ InitRange
    /\ WorldIdle
    /\ AudioIdle
    /\ InputIdle
    /\ CollisionIdle
    /\ DespawnIdle
    /\ CleanupIdle
    /\ CameraIdle
SpecRange == InitSpecRange /\ [][NextRange]_vars

InitSpecUpdate ==
    /\ InitWorld
    /\ RangeIdle
    /\ AudioIdle
    /\ InputIdle
    /\ CollisionIdle
    /\ DespawnIdle
    /\ CleanupIdle
    /\ CameraIdle
SpecUpdate == InitSpecUpdate /\ [][NextUpdate]_vars

InitSpecAudio ==
    /\ InitAudio
    /\ RangeIdle
    /\ WorldIdle
    /\ InputIdle
    /\ CollisionIdle
    /\ DespawnIdle
    /\ CleanupIdle
    /\ CameraIdle
SpecAudio == InitSpecAudio /\ [][NextAudio]_vars

\* Playback: while the decoder is alive the audio thread keeps calling next().
SpecAudioFair == SpecAudio /\ WF_vars(NextSample)

\* Frames of an application that installs and replaces its InputMapping.
InitSpecInput ==
    /\ InitInput
    /\ RangeIdle
    /\ WorldIdle
    /\ AudioIdle
    /\ CollisionIdle
    /\ DespawnIdle
    /\ CleanupIdle
    /\ CameraIdle
SpecInput == InitSpecInput /\ [][NextInput]_vars

\* The methods of InputMapping, called in any order on an empty InputMapping.
InitSpecMapping ==
    /\ InitInput
    /\ RangeIdle
    /\ WorldIdle
    /\ AudioIdle
    /\ CollisionIdle
    /\ DespawnIdle
    /\ CleanupIdle
    /\ CameraIdle
SpecMapping == InitSpecMapping /\ [][NextMapping]_vars

\* Frames of a world whose entities collide and change their components.
InitSpecCollision ==
    /\ InitCollision
    /\ RangeIdle
    /\ WorldIdle
    /\ AudioIdle
    /\ InputIdle
    /\ DespawnIdle
    /\ CleanupIdle
    /\ CameraIdle
SpecCollision == InitSpecCollision /\ [][NextCollision]_vars

\* Frames of a world in which entities with AutoDespawn are spawned.
InitSpecDespawn ==
    /\ InitDespawn
    /\ RangeIdle
    /\ WorldIdle
    /\ AudioIdle
    /\ InputIdle
    /\ CollisionIdle
    /\ CleanupIdle
    /\ CameraIdle
SpecDespawn == InitSpecDespawn /\ [][NextDespawn]_vars

\* State transitions of an application with CleanupPlugin(s).
InitSpecCleanup ==
    /\ InitCleanup
    /\ RangeIdle
    /\ WorldIdle
    /\ AudioIdle
    /\ InputIdle
    /\ CollisionIdle
    /\ DespawnIdle
    /\ CameraIdle
SpecCleanup == InitSpecCleanup /\ [][NextCleanup]_vars

\* Frames of an application whose camera follows and moves to its targets.
InitSpecCamera ==
    /\ InitCamera
    /\ RangeIdle
    /\ WorldIdle
    /\ AudioIdle
    /\ InputIdle
    /\ CollisionIdle
    /\ DespawnIdle
    /\ CleanupIdle
SpecCamera == InitSpecCamera /\ [][NextCamera]_vars

(***************************************************************************)
(* Claims about Range (SpecRange)                                          *)
(***************************************************************************)

\* C1: for a range with start < end, once set or modify has been called the
\* stored current value lies in [start, end]; set stores a value at or below
\* start as start, a value at or above end as end, and any other value as it is.
C1_StoredValueClamped ==
    /\ (touched /\ range.start < range.end) =>
            (range.start <= range.current /\ range.current <= range.end)
    /\ (lastOp.op = "set" /\ prev.start < prev.end) =>
            /\ lastOp.arg <= prev.start => range.current = prev.start
            /\ lastOp.arg >= prev.end => range.current = prev.end
            /\ (prev.start < lastOp.arg /\ lastOp.arg < prev.end) =>
                    range.current = lastOp.arg
            /\ range.start = prev.start /\ range.end = prev.end

\* C1 witness: set was called with a value above end and stored end.
C1_Witness ==
    /\ lastOp.op = "set"
    /\ prev.start < prev.end
    /\ prev.current < prev.end
    /\ lastOp.arg > prev.end
    /\ range.current = range.end

\* C2: for start < end and a quantize step > 0, after any sequence of set and
\* modify calls start <= get() <= end.
C2_GetWithinLimits ==
    (touched /\ range.start < range.end /\ range.quantize > 0) =>
        (range.start <= get(range) /\ get(range) <= range.end)

\* C3: for start < end, set(v) returns StartLimitReached{start, v} exactly when
\* v <= start, EndLimitReached{end, v} exactly when v >= end and Ok exactly when
\* start < v < end; the reported value is the requested one.
C3_SetResult ==
    (lastOp.op = "set" /\ prev.start < prev.end) =>
        /\ result.kind \in {"Ok", "StartLimitReached", "EndLimitReached"}
        /\ result.kind = "StartLimitReached" <=> lastOp.arg <= prev.start
        /\ result.kind = "EndLimitReached" <=> lastOp.arg >= prev.end
        /\ result.kind = "Ok" <=> (prev.start < lastOp.arg /\ lastOp.arg < prev.end)
        /\ result.kind = "StartLimitReached" =>
                result = [kind |-> "StartLimitReached",
                          low_limit |-> prev.start, value |-> lastOp.arg]
        /\ result.kind = "EndLimitReached" =>
                result = [kind |-> "EndLimitReached",
                          high_limit |-> prev.end, value |-> lastOp.arg]
        /\ result.kind = "Ok" => result = [kind |-> "Ok"]

\* C3 witness: set was called with a value equal to the end limit of a range
\* whose stored value was inside, and reported EndLimitReached with that value.
C3_Witness ==
    /\ lastOp.op = "set"
    /\ prev.start < prev.end
    /\ lastOp.arg = prev.end
    /\ prev.current < prev.end
    /\ result.kind = "EndLimitReached"
    /\ result.value = prev.end

\* C4: modify(delta) gives the stored value and the result of set(c + delta),
\* c being the stored (unquantized) current value, and a limit result reports
\* the unclamped sum c + delta.
C4_ModifyIsSetOfSum ==
    lastOp.op = "modify" =>
        LET sum == prev.current + lastOp.arg
        IN  /\ range = set(prev, sum).range
            /\ result = set(prev, sum).result
            /\ range.current =
                    IF sum <= prev.start THEN prev.start
                    ELSE IF sum >= prev.end THEN prev.end
                    ELSE sum
            /\ result.kind # "Ok" => result.value = sum
            /\ result.kind = "Ok" <=> (prev.start < sum /\ sum < prev.end)

\* C4 witness: modify ran on a stored value that get() rounds to another value,
\* and the sum taken from get() would have been stored differently.
C4_Witness ==
    /\ lastOp.op = "modify"
    /\ get(prev) # prev.current
    /\ set(prev, get(prev) + lastOp.arg).range # range
    /\ result.kind = "Ok"

\* C5: get() is the multiple of the quantize step nearest to the stored value,
\* a value halfway between two multiples going to the one farther from zero;
\* set stores the value unquantized, and set_quantize leaves the stored value
\* alone, so that get() follows the new step.
C5_GetQuantizes ==
    /\ range.quantize > 0 =>
            LET g == get(range)
                c == range.current
                s == range.quantize
            IN  /\ g % s = 0
                /\ 2 * Abs(g - c) <= s
                /\ 2 * Abs(g - c) = s => Abs(g) > Abs(c)
    /\ (lastOp.op = "set" /\ prev.start < lastOp.arg /\ lastOp.arg < prev.end) =>
            range.current = lastOp.arg
    /\ lastOp.op = "set_quantize" =>
            /\ range.current = prev.current
            /\ range.quantize = lastOp.arg
    /\ quantize(15, 10) = 20
    /\ quantize(14, 5) = 15

\* C5 witness: the stored value is halfway between two multiples of the step,
\* and set_quantize has just changed what get() returns for it.
C5_Witness ==
    /\ lastOp.op = "set_quantize"
    /\ range.current = prev.current
    /\ get(range) # get(prev)
    /\ 2 * Abs(get(range) - range.current) = range.quantize
    /\ range.current % range.quantize # 0

Count(events, entity) == Cardinality({i \in DOMAIN events : events[i] = entity})

\* C6: a run of update_range adds change_per_second * frame time to every
\* range and sends, per entity, exactly one StartRangeLimitReachedEvent when
\* the sum is at or below start, exactly one EndRangeLimitReachedEvent when it
\* is (otherwise) at or above end, no event when it is strictly inside, and
\* never both.
C6_UpdateRangeEvents ==
    frame.ran =>
        \A e \in Entities :
            LET r == worldPrev[e]
                sum == r.current + Mul(r.change_per_second, frame.dt)
                low == sum <= r.start
                high == ~low /\ sum >= r.end
            IN  /\ world[e].current =
                        IF low THEN r.start ELSE IF high THEN r.end ELSE sum
                /\ Count(startEvents, e) = IF low THEN 1 ELSE 0
                /\ Count(endEvents, e) = IF high THEN 1 ELSE 0
                /\ Count(startEvents, e) + Count(endEvents, e) <= 1

\* C6 witness: in one frame one entity reached its start limit and the other
\* its end limit, after a frame time above 0 moved both.
C6_Witness ==
    /\ frame.ran
    /\ frame.dt > 0
    /\ \E a, b \in Entities :
        /\ a # b
        /\ startEvents = <<a>>
        /\ endEvents = <<b>>
        /\ worldPrev[a].current > worldPrev[a].start
        /\ worldPrev[b].current < worldPrev[b].end

(***************************************************************************)
(* Claims about the audio loop (SpecAudio, SpecAudioFair)                  *)
(***************************************************************************)

\* The last step was a run of the handler that applied exactly one event, of
\* this kind.
AppliedOne(kind) ==
    /\ audioOp.op = "handler"
    /\ Len(audioOp.applied) = 1
    /\ audioOp.applied[1].kind = kind

\* Where the last next() compared the cursor with the loop end: at the cursor,
\* taken back to the loop start first if it had run off the end of the data.
CursorSeen ==
    IF audioPrev.current_position >= DataLen
    THEN ToIndex(audioPrev.loop_start)
    ELSE audioPrev.current_position

\* C8: StartPosition / EndPosition only set the pending loop point and leave the
\* active loop points and the cursor alone; a call of next() that does not find
\* the cursor past the active loop end changes neither the active nor the
\* pending loop points; a call that finds it past the active loop end makes
\* every pending value active, clears the pending values and plays from the
\* (new) loop start.
C8_PendingUntilLoopEnd ==
    /\ AppliedOne("StartPosition") =>
            audio = [loop_start |-> audioPrev.loop_start,
                     loop_end |-> audioPrev.loop_end,
                     future_loop_start |-> <<audioOp.applied[1].position>>,
                     future_loop_end |-> audioPrev.future_loop_end,
                     current_position |-> audioPrev.current_position]
    /\ AppliedOne("EndPosition") =>
            audio = [loop_start |-> audioPrev.loop_start,
                     loop_end |-> audioPrev.loop_end,
                     future_loop_start |-> audioPrev.future_loop_start,
                     future_loop_end |-> <<audioOp.applied[1].position>>,
                     current_position |-> audioPrev.current_position]
    /\ (audioOp.op = "next" /\ ~(ToSeconds(CursorSeen) > audioPrev.loop_end)) =>
            /\ audio.loop_start = audioPrev.loop_start
            /\ audio.loop_end = audioPrev.loop_end
            /\ audio.future_loop_start = audioPrev.future_loop_start
            /\ audio.future_loop_end = audioPrev.future_loop_end
    /\ (audioOp.op = "next" /\ ToSeconds(CursorSeen) > audioPrev.loop_end) =>
            /\ audio.loop_start =
                    IF audioPrev.future_loop_start # <<>>
                    THEN audioPrev.future_loop_start[1] ELSE audioPrev.loop_start
            /\ audio.loop_end =
                    IF audioPrev.future_loop_end # <<>>
                    THEN audioPrev.future_loop_end[1] ELSE audioPrev.loop_end
            /\ audio.future_loop_start = <<>>
            /\ audio.future_loop_end = <<>>
            /\ ~panicked =>
                    /\ played = <<ToIndex(audio.loop_start)>>
                    /\ audio.current_position = ToIndex(audio.loop_start) + 1
            /\ panicked => audio.current_position = ToIndex(audio.loop_start)

\* C8 witness: a pending start and a pending end were waiting, next() found the
\* cursor past the active loop end, made both active and played the sample at
\* the new loop start.
C8_Witness ==
    /\ audioOp.op = "next"
    /\ audioPrev.future_loop_start = <<7>>
    /\ audioPrev.future_loop_end = <<15>>
    /\ audioPrev.loop_start # 7
    /\ audioPrev.loop_end # 15
    /\ audioPrev.current_position < DataLen
    /\ ToSeconds(audioPrev.current_position) > audioPrev.loop_end
    /\ audio.loop_start = 7
    /\ audio.loop_end = 15
    /\ audio.future_loop_start = <<>>
    /\ audio.future_loop_end = <<>>
    /\ played = <<1>>

\* C9: during continuous playback every pending loop point eventually becomes
\* active, for every loop configuration: from any state of a live playback with
\* a pending loop point, the pending loop points are eventually taken over
\* (unless playback dies or the main thread applies another event first).
C9_PendingBecomesActive ==
    (loaded /\ ~panicked
        /\ (audio.future_loop_start # <<>> \/ audio.future_loop_end # <<>>))
    ~> \/ panicked
       \/ (audio.future_loop_start = <<>> /\ audio.future_loop_end = <<>>)
       \/ (audioOp.op = "handler" /\ audioOp.applied # <<>>)

\* C10: StartPositionImmediate / EndPositionImmediate change the active loop
\* start / loop end in the run of the handler that handles the event, and leave
\* the other active loop point, both pending loop points and the cursor alone.
C10_ImmediateLoopPoints ==
    /\ AppliedOne("StartPositionImmediate") =>
            audio = [loop_start |-> audioOp.applied[1].position,
                     loop_end |-> audioPrev.loop_end,
                     future_loop_start |-> audioPrev.future_loop_start,
                     future_loop_end |-> audioPrev.future_loop_end,
                     current_position |-> audioPrev.current_position]
    /\ AppliedOne("EndPositionImmediate") =>
            audio = [loop_start |-> audioPrev.loop_start,
                     loop_end |-> audioOp.applied[1].position,
                     future_loop_start |-> audioPrev.future_loop_start,
                     future_loop_end |-> audioPrev.future_loop_end,
                     current_position |-> audioPrev.current_position]

\* C10 witness: StartPositionImmediate changed the active loop start while a
\* pending loop start and a pending loop end were waiting and the cursor was
\* inside the file; they are still waiting.
C10_Witness ==
    /\ AppliedOne("StartPositionImmediate")
    /\ audioPrev.loop_start # audio.loop_start
    /\ audio.future_loop_start = <<40>>
    /\ audio.future_loop_end # <<>>
    /\ audio.current_position > 0


\* C11: a run of the handler while the asset is not in the store applies no
\* event and keeps every event, those of the buffer first and then the events
\* read in this run, in their order; a run with the asset in the store applies
\* every event of the buffer and then every event read, each once and in that
\* order, and leaves the buffer empty.  So no event is dropped unapplied and
\* none is applied twice.
C11_BufferedUntilLoaded ==
    audioOp.op = "handler" =>
        /\ ~loaded =>
                /\ audioOp.applied = <<>>
                /\ buffered = audioOp.held \o audioOp.sent
                /\ audio = audioPrev
        /\ loaded =>
                /\ audioOp.applied = audioOp.held \o audioOp.sent
                /\ buffered = <<>>

\* C11 witness: the first run of the handler with the asset in the store
\* applied the two events buffered while it was loading and one new event.
C11_Witness ==
    /\ audioOp.op = "handler"
    /\ loaded
    /\ Len(audioOp.held) = 2
    /\ Len(audioOp.sent) = 1
    /\ audioOp.applied = audioOp.held \o audioOp.sent
    /\ buffered = <<>>


(***************************************************************************)
(* Claims about the input mapping (SpecInput, SpecMapping)                 *)
(***************************************************************************)

\* C12: in a frame an ActionEvent of action a is sent if and only if some
\* button mapping of a matches the input of that frame (KeyDown: the key was
\* just pressed; KeyUp: just released; KeyPressed: held; MouseScrollUp: a wheel
\* event with y < 0; MouseScrollDown: one with y > 0), and the system carries
\* no action over to the next frame.
C12_ActionEventIffMatch ==
    inputOp.op = "frame" =>
        /\ \A a \in Actions :
            (\E n \in DOMAIN actionEvents : actionEvents[n] = a)
            <=> \E i \in DOMAIN mapping.button_mapping :
                    LET item == mapping.button_mapping[i]
                        inp == inputOp.input
                    IN  /\ item.action = a
                        /\ \/ item.input.kind = "KeyDown"
                                /\ item.input.key \in inp.just_pressed
                           \/ item.input.kind = "KeyUp"
                                /\ item.input.key \in inp.just_released
                           \/ item.input.kind = "KeyPressed"
                                /\ item.input.key \in inp.pressed
                           \/ item.input.kind = "MouseScrollUp"
                                /\ \E s \in DOMAIN inp.scroll : inp.scroll[s] < 0
                           \/ item.input.kind = "MouseScrollDown"
                                /\ \E s \in DOMAIN inp.scroll : inp.scroll[s] > 0
        /\ actions = {}

\* C12 witness: KeyW is held (pressed in an earlier frame), its KeyPressed
\* mapping sends Exit, and MoveUp, whose mappings do not match, is not sent.
C12_Witness ==
    /\ inputOp.op = "frame"
    /\ "KeyW" \in inputOp.input.pressed
    /\ "KeyW" \notin inputOp.input.just_pressed
    /\ \E i \in DOMAIN mapping.button_mapping :
            mapping.button_mapping[i] = ButtonMappingItem(KeyPressed("KeyW"), "Exit")
    /\ \E i \in DOMAIN mapping.button_mapping :
            mapping.button_mapping[i].action = "MoveUp"
    /\ actionEvents = <<"Exit">>

\* C13: in one frame at most one ActionEvent is sent per action.
C13_OneEventPerAction ==
    inputOp.op = "frame" => \A a \in Actions : Count(actionEvents, a) <= 1

\* C13 witness: ArrowUp and KeyW are both mapped to MoveUp and both held; one
\* MoveUp event is sent.
C13_Witness ==
    /\ inputOp.op = "frame"
    /\ mapping.button_mapping =
            <<ButtonMappingItem(KeyPressed("ArrowUp"), "MoveUp"),
              ButtonMappingItem(KeyPressed("KeyW"), "MoveUp")>>
    /\ inputOp.input.pressed = {"ArrowUp", "KeyW"}
    /\ actionEvents = <<"MoveUp">>

\* The elements of s at the indices of keep, in their order in s.
Retained(s, keep) ==
    [n \in 1 .. Cardinality(keep) |->
        s[CHOOSE k \in keep : Cardinality({j \in keep : j <= k}) = n]]

\* C14: remove_button_mapping(item) removes exactly the button mappings with
\* the input and the action of item, keeps the others in their order, changes
\* nothing when there is none, and leaves the directional mappings alone;
\* add_button_mapping appends the item.
C14_RemoveButtonMapping ==
    LET old == mappingPrev.button_mapping
        item == inputOp.item
        keep == {i \in DOMAIN old :
                    old[i].input # item.input \/ old[i].action # item.action}
    IN  /\ inputOp.op = "remove_button_mapping" =>
                /\ mapping.button_mapping = Retained(old, keep)
                /\ mapping.slider_mapping = mappingPrev.slider_mapping
                /\ keep = DOMAIN old => mapping = mappingPrev
        /\ inputOp.op = "add_button_mapping" =>
                /\ mapping.button_mapping = old \o <<item>>
                /\ mapping.slider_mapping = mappingPrev.slider_mapping

\* C14 witness: the item was mapped twice, around a mapping of the same action
\* with another input; both copies are gone, the other mapping and the
\* directional mappings are still there.
C14_Witness ==
    /\ inputOp.op = "remove_button_mapping"
    /\ Len(mappingPrev.button_mapping) = 3
    /\ mappingPrev.button_mapping[1] = inputOp.item
    /\ mappingPrev.button_mapping[3] = inputOp.item
    /\ mappingPrev.button_mapping[2].action = inputOp.item.action
    /\ mappingPrev.button_mapping[2].input # inputOp.item.input
    /\ mapping.button_mapping = <<mappingPrev.button_mapping[2]>>
    /\ mapping.slider_mapping # <<>>

\* C15: remove_directional_mapping(item) removes every directional mapping with
\* the slider type and the action of item, whatever its factors, keeps the
\* others in their order and leaves the button mappings alone.
C15_RemoveDirectionalMapping ==
    inputOp.op = "remove_directional_mapping" =>
        LET old == mappingPrev.slider_mapping
            item == inputOp.item
            keep == {i \in DOMAIN old :
                        ~(/\ old[i].slider_mapping_type = item.slider_mapping_type
                          /\ old[i].action = item.action)}
        IN  /\ mapping.slider_mapping = Retained(old, keep)
            /\ mapping.button_mapping = mappingPrev.button_mapping

\* C15 witness: two mappings with the slider type and action of the item, one
\* of them with other factors, are removed; the mapping of another action
\* between them and the button mappings stay.
C15_Witness ==
    /\ inputOp.op = "remove_directional_mapping"
    /\ Len(mappingPrev.slider_mapping) = 3
    /\ mappingPrev.slider_mapping[1] = inputOp.item
    /\ mappingPrev.slider_mapping[3].action = inputOp.item.action
    /\ mappingPrev.slider_mapping[3].slider_mapping_type
            = inputOp.item.slider_mapping_type
    /\ mappingPrev.slider_mapping[3].factor_x # inputOp.item.factor_x
    /\ mappingPrev.slider_mapping[2].action # inputOp.item.action
    /\ mapping.slider_mapping = <<mappingPrev.slider_mapping[2]>>
    /\ mapping.button_mapping # <<>>


(***************************************************************************)
(* Claims about the collision events (SpecCollision)                       *)
(***************************************************************************)

\* C16: in every CollisionEventStart and CollisionEventStop the system sends,
\* the first entity carries C1 and the second carries C2.
C16_EventEntitiesOrdered ==
    collisionOp = "system" =>
        /\ \A i \in DOMAIN collisionEventStart :
            /\ "C1" \in components[collisionEventStart[i][1]]
            /\ "C2" \in components[collisionEventStart[i][2]]
        /\ \A i \in DOMAIN collisionEventStop :
            /\ "C1" \in components[collisionEventStop[i][1]]
            /\ "C2" \in components[collisionEventStop[i][2]]

\* C16 witness: the physics engine reported the start of a contact with the C2
\* entity first and its stop with the C1 entity first; both events sent have
\* the C1 entity first.
C16_Witness ==
    /\ collisionOp = "system"
    /\ components["duck"] = {"C1"}
    /\ components["other"] = {"C2"}
    /\ collisionEvents = <<Started("other", "duck"), Stopped("duck", "other")>>
    /\ collisionEventStart = <<<<"duck", "other">>>>
    /\ collisionEventStop = <<<<"duck", "other">>>>


(***************************************************************************)
(* Claims about despawning (SpecDespawn, SpecCleanup)                      *)
(***************************************************************************)

\* C17: an entity with AutoDespawn::with_duration(d) is despawned by the run
\* of the system in which the summed frame times reach d: it is still there
\* after every run in which the sum is below d, and the run that despawns it
\* is the first one in which the sum is d or more (no later run sees it).
C17_DespawnWhenDurationReached ==
    \A e \in Despawners :
        lifetime[e].kind = "Timer" =>
            /\ (despawning[e] # NoEntity /\ lifetime[e].runs > 0) =>
                    lifetime[e].time < lifetime[e].initial
            /\ (despawnOp.op = "system" /\ e \in despawnCommands) =>
                    /\ lifetime[e].time >= lifetime[e].initial
                    /\ \/ lifetime[e].runs = 1
                       \/ lifetime[e].time - despawnOp.delta < lifetime[e].initial
            /\ e \in despawnCommands => despawning[e] = NoEntity

\* C17 witness: with_duration(0.5) and a second frame that brings the summed
\* frame times to exactly 0.5; the entity is despawned in that run, its second.
C17_Witness ==
    /\ despawnOp = [op |-> "system", delta |-> 5]
    /\ lifetime["a"] = [kind |-> "Timer", initial |-> 5, runs |-> 2, time |-> 5]
    /\ "a" \in despawnCommands
    /\ despawning["a"] = NoEntity
    /\ despawning["b"] # NoEntity

\* C18: an entity with AutoDespawn::with_frames(n) is still there after each of
\* its first n runs of the system, with the counter one lower per run and never
\* below 0, and is despawned by run n + 1.
C18_DespawnAfterFrames ==
    \A e \in Despawners :
        lifetime[e].kind = "Frames" =>
            /\ despawning[e] # NoEntity =>
                    /\ lifetime[e].runs <= lifetime[e].initial
                    /\ despawning[e].frames = lifetime[e].initial - lifetime[e].runs
                    /\ despawning[e].frames >= 0
            /\ despawning[e] = NoEntity => lifetime[e].runs = lifetime[e].initial + 1
            /\ (despawnOp.op = "system" /\ e \in despawnCommands) =>
                    lifetime[e].runs = lifetime[e].initial + 1

\* C18 witness: with_frames(2) is despawned by the third run of the system.
C18_Witness ==
    /\ despawnOp.op = "system"
    /\ lifetime["a"].kind = "Frames"
    /\ lifetime["a"].initial = 2
    /\ lifetime["a"].runs = 3
    /\ "a" \in despawnCommands
    /\ despawning["a"] = NoEntity

C20_FollowKeepsCameraInBand ==
    (/\ cameraOp.op = "system"
     /\ cameraPrev.controller.mode = "Follow"
     /\ cameraPrev.controller.allowed_distance >= 0
     /\ targets[cameraPrev.controller.target_entity] # <<>>) =>
        LET a == cameraPrev.controller.allowed_distance
            target == targets[cameraPrev.controller.target_entity][1]
            old == cameraPrev.translation
            new == camera.translation
        IN  /\ Abs(target.x - new.x) <= a
            /\ Abs(target.y - new.y) <= a
            /\ Abs(target.x - old.x) <= a => new.x = old.x
            /\ Abs(target.y - old.y) <= a => new.y = old.y
            /\ Abs(target.x - old.x) > a => Abs(target.x - new.x) = a
            /\ Abs(target.y - old.y) > a => Abs(target.y - new.y) = a
            /\ camera.controller.is_at_target

\* C20 witness: the camera, on its way to another target (is_at_target false),
\* is set to follow a target that is further than allowed_distance away on the
\* y axis and within it on the x axis; the run puts it on the edge of the band
\* on the y axis, leaves x alone and sets is_at_target.
C20_Witness ==
    /\ cameraOp.op = "system"
    /\ cameraPrev.controller.mode = "Follow"
    /\ cameraPrev.controller.allowed_distance = 30
    /\ ~cameraPrev.controller.is_at_target
    /\ targets[cameraPrev.controller.target_entity] # <<>>
    /\ LET target == targets[cameraPrev.controller.target_entity][1]
       IN  /\ Abs(target.x - cameraPrev.translation.x) <= 30
           /\ target.x # cameraPrev.translation.x
           /\ target.y - cameraPrev.translation.y > 30
           /\ camera.translation.x = cameraPrev.translation.x
           /\ camera.translation.y = target.y - 30
    /\ camera.controller.is_at_target


\* p * sqrt(l) <= q, decided without taking the root (l >= 0).
SqrtTimesAtMost(p, l, q) ==
    IF p >= 0
    THEN q >= 0 /\ p * p * l <= q * q
    ELSE q >= 0 \/ p * p * l >= q * q

\* d is m * step / sqrt(l) to within one unit of the representation, and is
\* that number itself when it is a number of the representation.
StepToward(d, m, step, l) ==
    /\ SqrtTimesAtMost(d - 1, l, m * step)
    /\ SqrtTimesAtMost(-(d + 1), l, -(m * step))
    /\ LET r == ISqrt(l)
       IN  (r * r = l /\ (m * step) % r = 0) => d * r = m * step

\* C21: after a run of the system in Move mode with a target that exists
\* (speed >= 0), with step = speed * frame time and (mx, my) the x/y vector
\* from the camera to the target before the run: if the length of (mx, my) is
\* less than step, the camera's x and y are the target's and is_at_target is
\* true; otherwise is_at_target is false and the camera has moved by
\* step * (mx, my) / length, each component to within one unit of the
\* representation and exactly when it is a number of the representation (not
\* at all when the vector is zero).  On both axes the camera ends between
\* where it was and the target; z and the other fields of the controller are
\* unchanged.
C21_MoveSnapsOrSteps ==
    (/\ cameraOp.op = "system"
     /\ cameraPrev.controller.mode = "Move"
     /\ targets[cameraPrev.controller.target_entity] # <<>>) =>
        LET target == targets[cameraPrev.controller.target_entity][1]
            old == cameraPrev.translation
            new == camera.translation
            step == (cameraPrev.controller.speed * cameraOp.delta) \div Unit
            mx == target.x - old.x
            my == target.y - old.y
            dx == new.x - old.x
            dy == new.y - old.y
            l == mx * mx + my * my
            near == l < step * step
        IN  /\ new.z = old.z
            /\ camera.controller.is_at_target = near
            /\ near => new.x = target.x /\ new.y = target.y
            /\ (~near /\ l = 0) => dx = 0 /\ dy = 0
            /\ (~near /\ l > 0) =>
                /\ StepToward(dx, mx, step, l)
                /\ StepToward(dy, my, step, l)
            /\ dx * mx >= 0 /\ (mx - dx) * mx >= 0
            /\ dy * my >= 0 /\ (my - dy) * my >= 0
            /\ camera.controller = [cameraPrev.controller EXCEPT !.is_at_target = near]

\* C21 witness: in Move mode the camera, whose is_at_target was true, is
\* further from its target than the step of this frame, at a height that is
\* not the target's; the run moves it by the step along both axes without
\* reaching the target and clears is_at_target.
C21_Witness ==
    /\ cameraOp.op = "system"
    /\ cameraPrev.controller.mode = "Move"
    /\ cameraPrev.controller.is_at_target
    /\ targets[cameraPrev.controller.target_entity] # <<>>
    /\ LET target == targets[cameraPrev.controller.target_entity][1]
           step == (cameraPrev.controller.speed * cameraOp.delta) \div Unit
           mx == target.x - cameraPrev.translation.x
           my == target.y - cameraPrev.translation.y
           dx == camera.translation.x - cameraPrev.translation.x
           dy == camera.translation.y - cameraPrev.translation.y
       IN  /\ step > 0
           /\ mx * mx + my * my > step * step
           /\ dx # 0 /\ dy # 0
           /\ dx * dx + dy * dy = step * step
           /\ camera.translation.x # target.x
           /\ camera.translation.z # target.z
    /\ ~camera.controller.is_at_target

=============================================================================
